---- MODULE Spec2Model ----
(***************************************************************************)
(* The sidecar supervisor of yaLLMa3 Studio's Tauri host:                  *)
(*   src-tauri/src/sidecar.rs  SidecarState and the three GUI commands     *)
(*   src-tauri/src/lib.rs      the startup auto-start task and the         *)
(*                             CloseRequested window hook                  *)
(* Every operation locks SidecarState.process for its whole body, so each  *)
(* task is modelled as a program counter walking through its body while it *)
(* owns the mutex.  The operating system (directory lookups, the node      *)
(* probe, process creation, kill, try_wait, the child exiting by itself)   *)
(* is the environment: its outcomes are chosen nondeterministically.       *)
(***************************************************************************)
EXTENDS Integers, FiniteSets, Sequences, TLC

\* ---------------------------------------------------------------- bounds
\* commands the GUI may invoke in one run
MaxCalls == 2
\* environment failures (failed lookups and syscalls) injected in one run
MaxFaults == 1

\* ---------------------------------------------------------------- tasks
Callers == {"c1", "c2"}
Tasks == Callers \cup {"auto", "close"}
Commands == {"spawn", "kill", "status"}

\* the startup task may create two processes, every spawn command one (the
\* scenario has two spawn commands)
MaxPid == 2 + MaxCalls + 2
Pids == 1..MaxPid

\* ------------------------------------------------------- result strings
AlreadyRunning == "yaLLMa3API is already running"
SpawnedOk == "yaLLMa3API spawned successfully"
KilledOk == "yaLLMa3API killed successfully"
NotRunning == "yaLLMa3API is not running"
IsRunning == "yaLLMa3API is running"
ExitedWith == "yaLLMa3API exited with status: "
ErrCurrentDir == "Failed to get current directory: "
ErrResourceDir == "Failed to get resource directory: "
ErrNotFound == "Could not find yaLLMa3API/index.js in any expected location"
ErrNoNode == "Node.js is not available in PATH"
ErrAppData == "Failed to get app data directory: "
ErrSpawn == "Failed to spawn yaLLMa3API: "
ErrKill == "Failed to kill yaLLMa3API: "
ErrStatus == "Failed to check yaLLMa3API status: "
Panicked == "panicked"
Errors == {ErrCurrentDir, ErrResourceDir, ErrNotFound, ErrNoNode, ErrAppData,
           ErrSpawn, ErrKill, ErrStatus}

VARIABLES
    debug,      \* cfg!(debug_assertions): development build or packaged build
    process,    \* SidecarState.process: 0 is None, p is Some(child with pid p)
    lock,       \* owner of the mutex around process, "none" when free
    poisoned,   \* the mutex was held by a task that panicked
    pc,         \* position of every task
    op,         \* the operation every task is running
    calls,      \* commands invoked so far by the GUI
    frame,      \* locals and outcome of every task's running operation
    procs,      \* operating-system state of every sidecar process
    killReq,    \* kill requests issued on every process
    nextPid,    \* pid the next created process gets
    faults,     \* environment failures injected so far
    hostExited, \* the host process has exited
    script,     \* what the GUI does: "any" commands, or the "scenario"
    run,        \* scenario runs: the operations that left the section, in order
    launch,     \* how every sidecar process was launched
    spawnCore   \* VITE_SPAWN_CORE in the host's environment

vars == <<debug, process, lock, poisoned, pc, op, calls, frame, procs, killReq,
          nextPid, faults, hostExited, script, run, launch, spawnCore>>

\* ------------------------------------------------------------ the state
\* pre, post: the handle found at lock() and left at the drop of the guard;
\* made: processes created; child: the child taken out of the handle;
\* killed, waited: the process kill() and try_wait() were called on;
\* res: the value returned; fault: an environment failure hit the operation;
\* lookup: a resource_dir() or app_data_dir() call of the operation failed;
\* look: what the packaged resolution of spawn() met; logdir: app_data_dir
NoLook == [rd |-> TRUE, inRes |-> FALSE, inApp |-> FALSE, rd2 |-> TRUE]

NoFrame ==
    [pre |-> 0, post |-> 0, made |-> {}, child |-> 0, path |-> "none",
     killed |-> 0, waited |-> 0, res |-> "", fault |-> FALSE,
     lookup |-> FALSE, look |-> NoLook, logdir |-> "none"]

\* a process that was never launched
NoLaunch ==
    [via |-> "none", path |-> "none", logdir |-> "none", stdio |-> "none",
     drains |-> {}]

\* the values VITE_SPAWN_CORE may have in the environment of the host
SpawnCoreValues == {"true", "false", "unset"}

StartPc(t) == IF t \in Callers THEN "idle" ELSE IF t = "auto" THEN "lock" ELSE "start"

\* the supervisor after SidecarState::new() and the setup block of run()
Fresh ==
    /\ debug \in BOOLEAN
    /\ process = 0
    /\ lock = "none"
    /\ poisoned = FALSE
    /\ pc = [t \in Tasks |-> StartPc(t)]
    /\ op = [t \in Tasks |-> IF t \in Callers THEN "none" ELSE t]
    /\ calls = 0
    /\ frame = [t \in Tasks |-> NoFrame]
    /\ procs = [p \in Pids |-> "unborn"]
    /\ killReq = [p \in Pids |-> 0]
    /\ nextPid = 1
    /\ faults = 0
    /\ hostExited = FALSE
    /\ run = <<>>
    /\ launch = [p \in Pids |-> NoLaunch]

\* the GUI invokes any commands, from two callers at once; run() never reads
\* VITE_SPAWN_CORE, which is left unset here
Init == Fresh /\ script = "any" /\ spawnCore = "unset"

\* the GUI runs the scenario: one caller, one command after the other
InitScenario == Fresh /\ script = "scenario" /\ spawnCore = "unset"

\* the host starts with VITE_SPAWN_CORE true, false or unset, and one caller
\* invokes commands
InitStartup == Fresh /\ script = "startup" /\ spawnCore \in SpawnCoreValues

\* the commands of the scenario, in order
ScenarioOps == <<"spawn", "spawn", "status", "kill", "status", "kill">>

\* ------------------------------------------------------ the environment
\* outcomes of a fallible lookup or syscall: TRUE is Ok, FALSE is Err
Outcomes == IF faults < MaxFaults THEN {TRUE, FALSE} ELSE {TRUE}

Fault(ok) == faults' = IF ok THEN faults ELSE faults + 1

Live == {p \in Pids : procs[p] = "alive"}

\* the host holds a Child for process p, in the handle or taken out of it
Held(p) == p = process \/ \E t \in Tasks : frame[t].child = p

\* the sidecar ends by itself; the end of a process the host holds no Child
\* for is nothing the host can observe, and is left out
ChildExit(p) ==
    /\ procs[p] = "alive"
    /\ Held(p)
    /\ procs' = [procs EXCEPT ![p] = "exited"]
    /\ UNCHANGED <<debug, process, lock, poisoned, pc, op, calls, frame, launch,
                   killReq, nextPid, faults, hostExited, script, spawnCore, run>>

\* ------------------------------------------------- entering and leaving
\* first position inside the handle section of every operation
FirstPc(o) ==
    CASE o = "spawn" -> "check"
      [] o = "kill" -> "take"
      [] o = "status" -> "wait"
      [] o = "auto" -> "check"
      [] o = "close" -> "take"

\* the task is between lock() and the drop of its guard
InSection(t) == pc[t] \notin {"idle", "start", "done", "lock", "returned"}

\* a lock that lets a task in while another task holds the guard
MutexFreeBroken == TRUE

\* Mutex::lock blocks until no other task holds the guard
MutexFree == lock = "none"

\* a GUI caller invokes one of the three commands
Invoke(t, o) ==
    /\ ~hostExited
    /\ pc[t] = "idle"
    /\ \/ script = "any" /\ calls < MaxCalls
       \/ script = "startup" /\ t = "c1" /\ calls < MaxCalls
       \/ /\ script = "scenario"
          /\ t = "c1"
          /\ calls < Len(ScenarioOps)
          /\ o = ScenarioOps[calls + 1]
    /\ calls' = calls + 1
    /\ op' = [op EXCEPT ![t] = o]
    /\ pc' = [pc EXCEPT ![t] = "lock"]
    /\ frame' = [frame EXCEPT ![t] = NoFrame]
    /\ UNCHANGED <<debug, process, lock, poisoned, procs, launch, killReq,
                   nextPid, faults, hostExited, script, spawnCore, run>>

\* return r with locals f and the handle left as post: the locals and the
\* guard go out of scope and the mutex is released
Leave(t, r, f, post) ==
    /\ pc' = [pc EXCEPT ![t] = IF t \in Callers THEN "returned" ELSE "done"]
    /\ lock' = IF lock = t THEN "none" ELSE lock
    /\ frame' = [frame EXCEPT ![t] =
                   [f EXCEPT !.res = r, !.post = post, !.child = 0,
                             !.path = "none", !.look = NoLook,
                             !.logdir = "none"]]
    /\ run' = IF script = "scenario"
              THEN Append(run, [op |-> op[t], res |-> r, made |-> f.made,
                                fault |-> f.fault])
              ELSE run

\* a panic while the guard is held: nothing is returned; the guard is
\* dropped while unwinding, which poisons the mutex, and the task is over
Panic(t) ==
    /\ poisoned' = TRUE
    /\ pc' = [pc EXCEPT ![t] = IF t \in Callers THEN "idle" ELSE "done"]
    /\ op' = [op EXCEPT ![t] = IF t \in Callers THEN "none" ELSE t]
    /\ lock' = IF lock = t THEN "none" ELSE lock
    /\ frame' = [frame EXCEPT ![t] =
                   IF t \in Callers THEN NoFrame
                   ELSE [NoFrame EXCEPT !.res = Panicked]]
    /\ run' = IF script = "scenario"
              THEN Append(run, [op |-> op[t], res |-> Panicked,
                                made |-> frame[t].made, fault |-> TRUE])
              ELSE run

\* state.process.lock().unwrap(): waits for the mutex; on a poisoned mutex
\* lock() is Err and unwrap() panics, dropping the guard again
Lock(t) ==
    /\ ~hostExited
    /\ pc[t] = "lock"
    /\ MutexFree
    /\ IF poisoned
       THEN Panic(t)
       ELSE /\ lock' = t
            /\ pc' = [pc EXCEPT ![t] = FirstPc(op[t])]
            /\ frame' = [frame EXCEPT ![t].pre = process]
            /\ UNCHANGED <<poisoned, op, run>>
    /\ UNCHANGED <<debug, process, calls, procs, launch, killReq, nextPid,
                   faults, hostExited, script, spawnCore>>

\* the returned value reaches the GUI, which may invoke the next command
Deliver(t) ==
    /\ ~hostExited
    /\ pc[t] = "returned"
    /\ pc' = [pc EXCEPT ![t] = "idle"]
    /\ op' = [op EXCEPT ![t] = "none"]
    /\ frame' = [frame EXCEPT ![t] = NoFrame]
    /\ UNCHANGED <<debug, process, lock, poisoned, calls, procs, launch, killReq,
                   nextPid, faults, hostExited, script, spawnCore, run>>

\* position pc of task t inside operation o
At(t, o, where) == ~hostExited /\ op[t] = o /\ pc[t] = where

Goto(t, where) == pc' = [pc EXCEPT ![t] = where] /\ UNCHANGED run

\* Command::spawn succeeded: a new process with the next pid is alive
Created(p) ==
    /\ procs' = [procs EXCEPT ![p] = "alive"]
    /\ nextPid' = p + 1

\* the Command that created process p: program via run on path, with
\* YA_API_LOG_DIR = dir in its environment; no stdout() or stderr() is set on
\* the Command, so the child inherits the host's streams and nothing reads them
Launched(p, via, path, dir) ==
    launch' = [launch EXCEPT ![p] =
                 [via |-> via, path |-> path, logdir |-> dir,
                  stdio |-> "inherit", drains |-> {}]]

\* ------------------------------------------------- spawn_yallma3api
\* if process_guard.is_some() { return Ok("... already running") }
SpawnCheck(t) ==
    /\ At(t, "spawn", "check")
    /\ IF process # 0
       THEN Leave(t, AlreadyRunning, frame[t], process)
       ELSE Goto(t, "resolve") /\ UNCHANGED <<lock, frame>>
    /\ UNCHANGED <<debug, process, poisoned, op, calls, procs, launch, killReq,
                   nextPid, faults, hostExited, script, spawnCore>>

\* a resolution that tries the AppImage path before the resource directory
PackagedPathAppFirst(rd, inRes, inApp, rd2) ==
    IF inApp THEN "appimage"
    ELSE IF rd /\ inRes THEN "resource"
    ELSE IF rd2 THEN "resource"
    ELSE "none"

\* packaged build: the resource directory when the script exists there, else
\* the AppImage path when it exists, else the resource directory unchecked
PackagedPath(rd, inRes, inApp, rd2) ==
    IF rd /\ inRes THEN "resource"
    ELSE IF inApp THEN "appimage"
    ELSE IF rd2 THEN "resource"
    ELSE "none"

\* let sidecar_path = if cfg!(debug_assertions) { ... } else { ... };
\* cd, cd2: the two current_dir() calls; rd, rd2: the two resource_dir()
\* calls; inRes, inApp: the two exists() checks
SpawnResolve(t) ==
    /\ At(t, "spawn", "resolve")
    /\ IF debug
       THEN \E cd \in Outcomes :
              \E cd2 \in (IF cd THEN Outcomes ELSE {TRUE}) :
                /\ Fault(cd /\ cd2)
                /\ IF ~cd
                   THEN /\ Leave(t, ErrCurrentDir,
                                 [frame[t] EXCEPT !.fault = TRUE], process)
                        /\ UNCHANGED <<poisoned, op>>
                   ELSE IF ~cd2
                   THEN Panic(t)
                   ELSE /\ Goto(t, "probe")
                        /\ frame' = [frame EXCEPT ![t].path = "dev"]
                        /\ UNCHANGED <<lock, poisoned, op>>
       ELSE \E rd \in Outcomes, inRes \in BOOLEAN, inApp \in BOOLEAN :
              \E rd2 \in (IF rd THEN Outcomes ELSE BOOLEAN) :
                LET tried2 == ~(rd /\ inRes) /\ ~inApp
                    failed == ~rd \/ (tried2 /\ ~rd2)
                    found == PackagedPath(rd, inRes, inApp, rd2)
                    met == [rd |-> rd, inRes |-> inRes, inApp |-> inApp,
                            rd2 |-> rd2]
                IN  /\ (~tried2 => rd2)
                    /\ (~rd => ~inRes)
                    /\ Fault(~failed)
                    /\ IF found = "none"
                       THEN Leave(t, ErrNotFound,
                                  [frame[t] EXCEPT !.fault = failed,
                                                   !.lookup = failed], process)
                       ELSE /\ Goto(t, "probe")
                            /\ frame' = [frame EXCEPT ![t].path = found,
                                                      ![t].fault = failed,
                                                      ![t].lookup = failed,
                                                      ![t].look = met]
                            /\ UNCHANGED lock
                    /\ UNCHANGED <<poisoned, op>>
    /\ UNCHANGED <<debug, process, calls, procs, launch, killReq, nextPid,
                   hostExited, script, spawnCore>>

\* Command::new("node").arg("--version").output()
SpawnProbe(t) ==
    /\ At(t, "spawn", "probe")
    /\ \E ok \in Outcomes :
         /\ Fault(ok)
         /\ IF ok
            THEN Goto(t, "appdata") /\ UNCHANGED <<lock, frame>>
            ELSE Leave(t, ErrNoNode, [frame[t] EXCEPT !.fault = TRUE], process)
    /\ UNCHANGED <<debug, process, poisoned, op, calls, procs, launch, killReq,
                   nextPid, hostExited, script, spawnCore>>

\* a Command built without the .env("YA_API_LOG_DIR", ...) call
ChildEnvNone(dir) == "none"

\* .env("YA_API_LOG_DIR", app_data_dir.to_string_lossy().to_string()): the
\* value of YA_API_LOG_DIR in the environment of the child
ChildEnv(dir) == dir

\* app_handle.path().app_data_dir().map_err(...)?
SpawnAppData(t) ==
    /\ At(t, "spawn", "appdata")
    /\ \E ok \in Outcomes :
         /\ Fault(ok)
         /\ IF ok
            THEN /\ Goto(t, "create")
                 /\ frame' = [frame EXCEPT ![t].logdir = "appdata"]
                 /\ UNCHANGED lock
            ELSE Leave(t, ErrAppData,
                       [frame[t] EXCEPT !.fault = TRUE, !.lookup = TRUE],
                       process)
    /\ UNCHANGED <<debug, process, poisoned, op, calls, procs, launch, killReq,
                   nextPid, hostExited, script, spawnCore>>

\* Command::new("node").arg(sidecar_path).env(...).spawn().map_err(...)?;
\* *process_guard = Some(child); Ok("... spawned successfully")
SpawnCreate(t) ==
    /\ At(t, "spawn", "create")
    /\ \E ok \in Outcomes :
         /\ Fault(ok)
         /\ IF ok
            THEN /\ Created(nextPid)
                 /\ Launched(nextPid, "node", frame[t].path,
                             ChildEnv(frame[t].logdir))
                 /\ process' = nextPid
                 /\ Leave(t, SpawnedOk,
                          [frame[t] EXCEPT !.made = @ \cup {nextPid}], nextPid)
            ELSE /\ Leave(t, ErrSpawn, [frame[t] EXCEPT !.fault = TRUE], process)
                 /\ UNCHANGED <<process, procs, launch, nextPid>>
    /\ UNCHANGED <<debug, poisoned, op, calls, killReq, hostExited, script,
                   spawnCore>>

\* ---------------------------------------------------- kill_yallma3api
\* reading the handle without taking the child out of it
EmptiedNot == process

\* what process_guard.take() leaves in the handle: None
Emptied == 0

\* if let Some(mut child) = process_guard.take() { ... } else { Ok("... not running") }
KillTake(t) ==
    /\ At(t, "kill", "take")
    /\ process' = Emptied
    /\ IF process = 0
       THEN Leave(t, NotRunning, frame[t], process')
       ELSE /\ Goto(t, "signal")
            /\ frame' = [frame EXCEPT ![t].child = process]
            /\ UNCHANGED lock
    /\ UNCHANGED <<debug, poisoned, op, calls, procs, launch, killReq, nextPid,
                   faults, hostExited, script, spawnCore>>

\* the child is dropped and kill() is never called on it
NotSignalled(p, ok) == UNCHANGED <<killReq, procs>>

\* Child::kill on process p: the request is issued; when it succeeds a
\* process that is still alive is terminated
Signalled(p, ok) ==
    /\ killReq' = [killReq EXCEPT ![p] = @ + 1]
    /\ procs' = IF ok /\ procs[p] = "alive"
                THEN [procs EXCEPT ![p] = "killed"]
                ELSE procs

\* child.kill().map_err(...)?; Ok("... killed successfully")
KillSignal(t) ==
    /\ At(t, "kill", "signal")
    /\ \E ok \in Outcomes :
         /\ Fault(ok)
         /\ Signalled(frame[t].child, ok)
         /\ Leave(t, IF ok THEN KilledOk ELSE ErrKill,
                  [frame[t] EXCEPT !.killed = frame[t].child, !.fault = ~ok],
                  process)
    /\ UNCHANGED <<debug, process, poisoned, op, calls, launch, nextPid,
                   hostExited, script, spawnCore>>

\* ---------------------------------------------- get_yallma3api_status
\* a reply that asks try_wait() first and forgets the empty handle
StatusResultNoIdle(h, ok) ==
    IF ~ok THEN ErrStatus
    ELSE IF h # 0 /\ procs[h] = "alive" THEN IsRunning
    ELSE ExitedWith

\* the reply for handle h when try_wait() is Ok (ok) or Err: without a child
\* "not running", else by Ok(Some(status)), Ok(None), Err(e)
StatusResult(h, ok) ==
    IF h = 0 THEN NotRunning
    ELSE IF ~ok THEN ErrStatus
    ELSE IF procs[h] = "alive" THEN IsRunning
    ELSE ExitedWith

\* a status that empties the handle when it finds the child has ended
AfterWaitCleared(h, ok) == IF h # 0 /\ ok /\ procs[h] # "alive" THEN 0 ELSE h

\* if let Some(child) = &mut *process_guard: the child is borrowed, and the
\* handle h holds it after try_wait() as before, whatever try_wait() returns
AfterWait(h, ok) == h

\* child.try_wait() on the child in the handle
Status(t) ==
    /\ At(t, "status", "wait")
    /\ IF process = 0
       THEN /\ process' = AfterWait(process, TRUE)
            /\ Leave(t, StatusResult(process, TRUE), frame[t], process')
            /\ UNCHANGED faults
       ELSE \E ok \in Outcomes :
              /\ Fault(ok)
              /\ process' = AfterWait(process, ok)
              /\ Leave(t, StatusResult(process, ok),
                       [frame[t] EXCEPT !.waited = process, !.fault = ~ok],
                       process')
    /\ UNCHANGED <<debug, poisoned, op, calls, procs, launch, killReq,
                   nextPid, hostExited, script, spawnCore>>

\* ------------------------------------------ run: the startup auto-start
\* if process_guard.is_some() { println!("... already running"); return; }
AutoCheck ==
    /\ At("auto", "auto", "check")
    /\ IF process # 0
       THEN Leave("auto", AlreadyRunning, frame["auto"], process)
       ELSE Goto("auto", "resolve") /\ UNCHANGED <<lock, frame>>
    /\ UNCHANGED <<debug, process, poisoned, op, calls, procs, launch, killReq,
                   nextPid, faults, hostExited, script, spawnCore>>

\* let executable_path = ...: current_dir() in a development build,
\* resource_dir() and the bundled binary in a packaged build
AutoResolve ==
    /\ At("auto", "auto", "resolve")
    /\ \E ok \in Outcomes :
         /\ Fault(ok)
         /\ IF ok
            THEN /\ Goto("auto", "appdata")
                 /\ frame' = [frame EXCEPT
                       !["auto"].path = IF debug THEN "dev" ELSE "bin"]
                 /\ UNCHANGED lock
            ELSE Leave("auto", IF debug THEN ErrCurrentDir ELSE ErrResourceDir,
                       [frame["auto"] EXCEPT !.fault = TRUE, !.lookup = ~debug],
                       process)
    /\ UNCHANGED <<debug, process, poisoned, op, calls, procs, launch, killReq,
                   nextPid, hostExited, script, spawnCore>>

\* let app_data_dir = match app_handle.path().app_data_dir() { ... }, which
\* the task runs before each of its two spawns
AutoAppData(where, next) ==
    /\ At("auto", "auto", where)
    /\ \E ok \in Outcomes :
         /\ Fault(ok)
         /\ IF ok
            THEN /\ Goto("auto", next)
                 /\ frame' = [frame EXCEPT !["auto"].logdir = "appdata"]
                 /\ UNCHANGED lock
            ELSE Leave("auto", ErrAppData,
                       [frame["auto"] EXCEPT !.fault = TRUE, !.lookup = TRUE],
                       process)
    /\ UNCHANGED <<debug, process, poisoned, op, calls, procs, launch, killReq,
                   nextPid, hostExited, script, spawnCore>>

\* if cfg!(debug_assertions) { Command::new("node").arg(&executable_path) }
\* else { Command::new(&executable_path) }
AutoVia == IF debug THEN "node" ELSE "direct"

\* the first let _spawn_result = ...spawn(): its child is kept in a local
\* that the second let shadows, and is dropped, not killed, at the end
AutoSpawnFirst ==
    /\ At("auto", "auto", "create")
    /\ \E ok \in Outcomes :
         /\ Fault(ok)
         /\ IF ok
            THEN /\ Created(nextPid)
                 /\ Launched(nextPid, AutoVia, frame["auto"].path,
                             ChildEnv(frame["auto"].logdir))
                 /\ frame' = [frame EXCEPT !["auto"].made = @ \cup {nextPid}]
            ELSE /\ frame' = [frame EXCEPT !["auto"].fault = TRUE]
                 /\ UNCHANGED <<procs, launch, nextPid>>
    /\ Goto("auto", "appdata2")
    /\ UNCHANGED <<debug, process, lock, poisoned, op, calls,
                   killReq, hostExited, script, spawnCore>>

\* the second let _spawn_result = ...spawn() and the match on it:
\* Ok(child) => *process_guard = Some(child), Err(e) => eprintln!
AutoSpawn ==
    /\ At("auto", "auto", "create2")
    /\ \E ok \in Outcomes :
         /\ Fault(ok)
         /\ IF ok
            THEN /\ Created(nextPid)
                 /\ Launched(nextPid, AutoVia, frame["auto"].path,
                             ChildEnv(frame["auto"].logdir))
                 /\ process' = nextPid
                 /\ Leave("auto", SpawnedOk,
                          [frame["auto"] EXCEPT !.made = @ \cup {nextPid}],
                          nextPid)
            ELSE /\ Leave("auto", ErrSpawn,
                          [frame["auto"] EXCEPT !.fault = TRUE], process)
                 /\ UNCHANGED <<process, procs, launch, nextPid>>
    /\ UNCHANGED <<debug, poisoned, op, calls, killReq, hostExited, script,
                   spawnCore>>

\* --------------------------------- run: on_window_event CloseRequested
\* the window is asked to close
CloseRequested ==
    /\ ~hostExited
    /\ pc["close"] = "start"
    /\ Goto("close", "lock")
    /\ UNCHANGED <<debug, process, lock, poisoned, op, calls, frame, procs,
                   launch, killReq, nextPid, faults, hostExited, script,
                   spawnCore>>

\* if let Some(mut child) = process_guard.take() { ... }
CloseTake ==
    /\ At("close", "close", "take")
    /\ process' = 0
    /\ IF process = 0
       THEN Leave("close", NotRunning, frame["close"], 0)
       ELSE /\ Goto("close", "signal")
            /\ frame' = [frame EXCEPT !["close"].child = process]
            /\ UNCHANGED lock
    /\ UNCHANGED <<debug, poisoned, op, calls, procs, launch, killReq, nextPid,
                   faults, hostExited, script, spawnCore>>

\* let _ = child.kill();
CloseKill ==
    /\ At("close", "close", "signal")
    /\ \E ok \in Outcomes :
         /\ Fault(ok)
         /\ Signalled(frame["close"].child, ok)
         /\ Leave("close", IF ok THEN KilledOk ELSE ErrKill,
                  [frame["close"] EXCEPT !.killed = frame["close"].child,
                                         !.fault = ~ok],
                  process)
    /\ UNCHANGED <<debug, process, poisoned, op, calls, launch, nextPid,
                   hostExited, script, spawnCore>>

\* the window closes after its hook returned and the host process ends: its
\* tasks and its memory are gone, the processes it created are not
HostExit ==
    /\ ~hostExited
    /\ pc["close"] = "done"
    /\ hostExited' = TRUE
    /\ process' = 0
    /\ lock' = "none"
    /\ poisoned' = FALSE
    /\ pc' = [t \in Tasks |-> "done"]
    /\ op' = [t \in Tasks |-> IF t \in Callers THEN "none" ELSE t]
    /\ calls' = 0
    /\ frame' = [t \in Tasks |-> NoFrame]
    /\ faults' = 0
    /\ UNCHANGED <<debug, procs, launch, killReq, nextPid, script, spawnCore, run>>

\* ------------------------------------------------------ specification
Next ==
    \/ \E t \in Callers, o \in Commands : Invoke(t, o)
    \/ \E t \in Tasks : Lock(t)
    \/ \E t \in Callers : Deliver(t)
    \/ \E t \in Callers : SpawnCheck(t)
    \/ \E t \in Callers : SpawnResolve(t)
    \/ \E t \in Callers : SpawnProbe(t)
    \/ \E t \in Callers : SpawnAppData(t)
    \/ \E t \in Callers : SpawnCreate(t)
    \/ \E t \in Callers : KillTake(t)
    \/ \E t \in Callers : KillSignal(t)
    \/ \E t \in Callers : Status(t)
    \/ AutoCheck
    \/ AutoResolve
    \/ AutoAppData("appdata", "create")
    \/ AutoSpawnFirst
    \/ AutoAppData("appdata2", "create2")
    \/ AutoSpawn
    \/ CloseRequested
    \/ CloseTake
    \/ CloseKill
    \/ HostExit
    \/ \E p \in Pids : ChildExit(p)

Spec == Init /\ [][Next]_vars

SpecScenario == InitScenario /\ [][Next]_vars

SpecStartup == InitStartup /\ [][Next]_vars

\* ------------------------------------------------------------- typing
TypeOK ==
    /\ debug \in BOOLEAN
    /\ process \in 0..MaxPid
    /\ lock \in Tasks \cup {"none"}
    /\ poisoned \in BOOLEAN
    /\ calls \in 0..(MaxCalls + Len(ScenarioOps))
    /\ \A p \in Pids : procs[p] \in {"unborn", "alive", "exited", "killed"}
    /\ nextPid \in 1..(MaxPid + 1)
    /\ faults \in 0..MaxFaults
    /\ hostExited \in BOOLEAN
    /\ spawnCore \in SpawnCoreValues
    /\ \A p \in Pids : (launch[p] = NoLaunch) = (procs[p] = "unborn")

\* ============================================================== claims
\* operation o of task t has returned; its outcome is in frame[t]
Over(t, o) ==
    /\ op[t] = o
    /\ pc[t] \in {"returned", "done"}
    /\ frame[t].res \notin {"", Panicked}

\* process p was taken out of the handle by a kill or by the close hook
Taken(p) == killReq[p] > 0 \/ \E t \in Tasks : frame[t].child = p

\* the processes an operation found in the handle, created or left in it
Seen(t) == (frame[t].made \cup {frame[t].pre, frame[t].post}) \ {0}

\* ------------------------------------------------------------------ C1
\* C1: two spawn commands outstanding at the same time, at least one of which
\* found the supervisor idle, neither hit by an environment failure and with
\* no kill of a process they saw or created in between: exactly one of them
\* created a process (exactly one) and returned "spawned successfully", the
\* other returned "already running", created nothing and left the same handle.
C1_OneSpawnWins ==
    \A a, b \in Callers :
       ( /\ a # b
         /\ Over(a, "spawn") /\ Over(b, "spawn")
         /\ ~frame[a].fault /\ ~frame[b].fault
         /\ frame[a].pre = 0 \/ frame[b].pre = 0
         /\ \A p \in Seen(a) \cup Seen(b) : ~Taken(p) )
       => /\ Cardinality({t \in {a, b} : frame[t].res = SpawnedOk}) = 1
          /\ Cardinality(frame[a].made \cup frame[b].made) = 1
          /\ frame[a].post = frame[b].post
          /\ \A t \in {a, b} :
                IF frame[t].res = SpawnedOk
                THEN frame[t].pre = 0 /\ frame[t].made = {frame[t].post}
                ELSE /\ frame[t].res = AlreadyRunning
                     /\ frame[t].made = {}
                     /\ frame[t].pre = frame[t].post

C1_Witness ==
    /\ Over("c1", "spawn") /\ Over("c2", "spawn")
    /\ frame["c1"].pre = 0 /\ frame["c1"].res = SpawnedOk
    /\ frame["c2"].res = AlreadyRunning
    /\ frame["c2"].pre = frame["c1"].post
    /\ ~frame["c1"].fault /\ ~frame["c2"].fault
    /\ ~Taken(frame["c1"].post)

\* ------------------------------------------------------------------ C2
\* C2: at most one sidecar process created by the host is alive, every start
\* attempt creates at most one process, and a process it creates is the one
\* it stores in the handle.
C2_AtMostOneAlive ==
    /\ Cardinality(Live) <= 1
    /\ \A t \in Tasks :
          /\ Cardinality(frame[t].made) <= 1
          /\ (Over(t, "spawn") \/ Over(t, "auto")) /\ frame[t].res = SpawnedOk
                => frame[t].made = {frame[t].post}

\* ------------------------------------------------------------------ C3
\* C3: no two of the startup task, the commands and the close hook are inside
\* their handle section at the same time; the task inside owns the mutex; the
\* handle it found is the handle until it writes it itself (it stays empty
\* from the check of a start or the take of a stop to the end of the section);
\* and at most one child is owned by the handle or taken out of it.
C3_Exclusive ==
    /\ \A a, b \in Tasks : a # b => ~(InSection(a) /\ InSection(b))
    /\ \A t \in Tasks : InSection(t) =>
          /\ lock = t
          /\ process = IF pc[t] \in {"check", "take", "wait"}
                       THEN frame[t].pre ELSE 0
    /\ Cardinality(({process} \cup {frame[t].child : t \in Tasks}) \ {0}) <= 1

C3_Witness ==
    /\ pc["c1"] = "create"
    /\ pc["c2"] = "lock"
    /\ pc["close"] = "lock"
    /\ lock = "c1"

\* ------------------------------------------------------------------ C4
\* what the scenario's commands are to return, in order
ScenarioResults ==
    <<SpawnedOk, AlreadyRunning, IsRunning, KilledOk, NotRunning, NotRunning>>

\* the run without a startup task that ended before it and created nothing
Sequel ==
    IF Len(run) > 0 /\ run[1].op = "auto" /\ run[1].made = {}
    THEN Tail(run) ELSE run

\* a sequential run of the scenario from a fresh idle supervisor: nothing but
\* the scenario's commands so far, no environment failure in them, and no
\* child that ended by itself
Cooperative ==
    /\ Len(Sequel) <= Len(ScenarioOps)
    /\ \A i \in DOMAIN Sequel :
          Sequel[i].op = ScenarioOps[i] /\ ~Sequel[i].fault
    /\ \A p \in Pids : procs[p] # "exited"

\* C4: from a fresh idle supervisor with a spawnable target and a child that
\* stays alive, spawn, spawn, status, kill, status, kill return "spawned
\* successfully", "already running", "running", "killed successfully", "not
\* running", "not running".
C4_Scenario ==
    Cooperative => \A i \in DOMAIN Sequel : Sequel[i].res = ScenarioResults[i]

C4_Witness ==
    /\ Cooperative
    /\ Len(Sequel) = Len(ScenarioOps)
    /\ Sequel[6].res = NotRunning

\* ------------------------------------------------------------------ C5
\* the close hook has returned and the host has not exited yet
CloseDone == pc["close"] = "done" /\ frame["close"].res # "" /\ ~hostExited

\* C5: once the close hook has run the handle is empty and a kill was issued
\* on every process the host created that is alive; no process is alive and
\* un-killed when the host exits.
C5_NothingLeftBehind ==
    /\ CloseDone => process = 0
    /\ CloseDone \/ hostExited => \A p \in Live : killReq[p] > 0

\* ------------------------------------------------------------------ C6
\* C6: a kill() that returned "killed successfully" for process p and the
\* spawn() that created the next process q: the spawn found the handle empty,
\* created q alone and left q in the handle, where it is until a later stop
\* takes it; p was issued one kill, is not alive and is referenced neither by
\* the handle nor by a task.
C6_KillThenSpawn ==
    \A a, b \in Callers :
       ( /\ a # b
         /\ Over(a, "kill") /\ frame[a].res = KilledOk
         /\ Over(b, "spawn") /\ frame[b].res = SpawnedOk
         /\ frame[b].post = frame[a].killed + 1 )
       => LET p == frame[a].killed
              q == frame[b].post
          IN  /\ frame[a].pre = p /\ frame[a].post = 0
              /\ frame[b].pre = 0 /\ frame[b].made = {q}
              /\ process = q \/ Taken(q)
              /\ procs[q] # "unborn"
              /\ Taken(q) \/ procs[q] \in {"alive", "exited"}
              /\ killReq[p] = 1
              /\ procs[p] \in {"killed", "exited"}
              /\ process # p
              /\ \A t \in Tasks : frame[t].child # p

C6_Witness ==
    /\ Over("c1", "kill") /\ frame["c1"].res = KilledOk
    /\ Over("c2", "spawn") /\ frame["c2"].res = SpawnedOk
    /\ frame["c2"].post = frame["c1"].killed + 1
    /\ process = frame["c2"].post
    /\ procs[process] = "alive"
    /\ Live = {process}

\* ------------------------------------------------------------------ C7
\* C7: a start attempt (command or startup task) that reported an error left
\* the handle empty and no process it created alive.
C7_FailedStartLeavesNothing ==
    \A t \in Tasks :
       (Over(t, "spawn") \/ Over(t, "auto")) /\ frame[t].res \in Errors
       => /\ frame[t].post = 0
          /\ \A p \in frame[t].made : procs[p] # "alive"

\* ------------------------------------------------------------------ C8
\* C8: a kill() or status() whose syscall failed returned an error and left
\* the handle as it found it, populated with the same process.
C8_FailedSyscallKeepsHandle ==
    \A t \in Callers :
       (Over(t, "kill") \/ Over(t, "status")) /\ frame[t].res \in {ErrKill, ErrStatus}
       => frame[t].pre # 0 /\ frame[t].post = frame[t].pre

\* ------------------------------------------------------------------ C9
\* a kill() command or the close hook has returned
Stopped(t) == Over(t, "kill") \/ Over(t, "close")

\* C9: no process is issued more than one kill; of two stops (kill() or the
\* close hook) only one found a given process in the handle; a stop that found
\* the handle empty returned "not running", issued no kill and left the handle
\* empty; a stop that found a process issued its kill on that process.
C9_OneKill ==
    /\ \A p \in Pids : killReq[p] <= 1
    /\ \A a, b \in Tasks :
          a # b /\ Stopped(a) /\ Stopped(b) /\ frame[a].pre # 0
             => frame[a].pre # frame[b].pre
    /\ \A t \in Tasks : Stopped(t) =>
          /\ frame[t].post = 0
          /\ IF frame[t].pre = 0
             THEN frame[t].res = NotRunning /\ frame[t].killed = 0
             ELSE frame[t].killed = frame[t].pre /\ frame[t].res # NotRunning

C9_Witness ==
    /\ Stopped("c1") /\ Stopped("c2") /\ Stopped("close")
    /\ frame["c1"].res = KilledOk
    /\ frame["c2"].res = NotRunning
    /\ frame["close"].res = NotRunning
    /\ killReq[frame["c1"].killed] = 1

\* ----------------------------------------------------------------- C10
\* C10: a status() that found the handle empty returned "not running", called
\* neither try_wait() nor kill(), created nothing and left the handle empty.
C10_StatusIdle ==
    \A t \in Callers :
       Over(t, "status") /\ frame[t].pre = 0
       => /\ frame[t].res = NotRunning
          /\ frame[t].waited = 0 /\ frame[t].killed = 0
          /\ frame[t].made = {}
          /\ frame[t].post = 0

C10_Witness ==
    /\ Over("c1", "status")
    /\ frame["c1"].pre = 0
    /\ frame["c1"].res = NotRunning
    /\ process = 0

\* ----------------------------------------------------------------- C11
\* C11: with VITE_SPAWN_CORE false the startup task creates no process and
\* the handle is empty as long as no command was invoked; with the setting
\* true or unset the startup task, once over, has run its start attempt.
C11_StartupGate ==
    /\ spawnCore = "false" =>
          /\ frame["auto"].made = {}
          /\ ~hostExited /\ calls = 0 => process = 0 /\ nextPid = 1
    /\ spawnCore # "false" /\ pc["auto"] = "done" /\ ~hostExited =>
          frame["auto"].res # ""

\* ----------------------------------------------------------------- C12
\* spawn() of caller t has resolved its path in a packaged build
Resolved(t) ==
    ~debug /\ op[t] = "spawn" /\ pc[t] \in {"probe", "appdata", "create"}

\* C12: a packaged spawn() that resolved its path took the resource-directory
\* path when the script exists there, also when the AppImage path exists; else
\* the AppImage path when that exists; else the resource-directory path
\* unchecked.  A spawn() returns "Could not find ..." only when a
\* resource_dir() lookup failed.
C12_ResolutionOrder ==
    \A t \in Callers :
       /\ Resolved(t) =>
             LET met == frame[t].look
             IN  /\ met.rd /\ met.inRes => frame[t].path = "resource"
                 /\ ~(met.rd /\ met.inRes) /\ met.inApp
                       => frame[t].path = "appimage"
                 /\ ~(met.rd /\ met.inRes) /\ ~met.inApp
                       => frame[t].path = "resource" /\ met.rd2
       /\ Over(t, "spawn") /\ frame[t].res = ErrNotFound
             => ~debug /\ frame[t].fault /\ frame[t].made = {}

C12_Witness ==
    /\ Resolved("c1")
    /\ frame["c1"].look.rd /\ frame["c1"].look.inRes /\ frame["c1"].look.inApp
    /\ frame["c1"].path = "resource"
    /\ pc["c1"] = "create"

\* ----------------------------------------------------------------- C13
\* a start attempt, the spawn() command or the startup task, is over
Started(t) == Over(t, "spawn") \/ Over(t, "auto")

\* C13: a start attempt one of whose resource_dir() or app_data_dir() lookups
\* failed does not go on to its next step; it returns an error and has
\* created no process, whether or not the AppImage path exists.
C13_LookupFailureAborts ==
    /\ \A t \in Callers : Resolved(t) => ~frame[t].lookup
    /\ \A t \in Tasks :
          Started(t) /\ frame[t].lookup
             => frame[t].res \in Errors /\ frame[t].made = {}

\* ----------------------------------------------------------------- C14
\* the processes that were launched
LaunchedPids == {p \in Pids : launch[p] # NoLaunch}

\* C14: in one build all launches use one launch mode, through the
\* interpreter or directly, and a process launched by the startup task and a
\* process launched by a spawn() command were launched from the same path in
\* the same mode.
C14_OneStrategy ==
    /\ \A p, q \in LaunchedPids : launch[p].via = launch[q].via
    /\ \A p \in frame["auto"].made : \A q \in LaunchedPids \ frame["auto"].made :
          launch[p].path = launch[q].path /\ launch[p].via = launch[q].via

\* ----------------------------------------------------------------- C15
\* C15: a status() that returned "exited with status" found a process in the
\* handle that has ended by itself and left it there, where it is until a
\* stop takes it; a status() on a process that is alive returned "running";
\* and a spawn() that found the handle populated, be it with a process that
\* has ended, returned "already running", created nothing and left the handle
\* as it was.
C15_ExitedStaysInHandle ==
    \A t \in Callers :
       /\ Over(t, "status") /\ frame[t].res = ExitedWith
             => /\ frame[t].pre # 0
                /\ frame[t].waited = frame[t].pre
                /\ frame[t].post = frame[t].pre
                /\ procs[frame[t].pre] = "exited"
                /\ process = frame[t].pre \/ Taken(frame[t].pre)
       /\ ( /\ Over(t, "status") /\ frame[t].pre # 0 /\ ~frame[t].fault
            /\ procs[frame[t].pre] = "alive" )
             => frame[t].res = IsRunning /\ frame[t].post = frame[t].pre
       /\ Over(t, "spawn") /\ frame[t].pre # 0
             => /\ frame[t].res = AlreadyRunning
                /\ frame[t].made = {}
                /\ frame[t].post = frame[t].pre

C15_Witness ==
    /\ Over("c1", "status") /\ frame["c1"].res = ExitedWith
    /\ Over("c2", "spawn") /\ frame["c2"].res = AlreadyRunning
    /\ frame["c2"].pre = frame["c1"].waited
    /\ process = frame["c1"].waited
    /\ procs[process] = "exited"

\* ----------------------------------------------------------------- C16
\* the positions of a handle section at which the task resolves a path or
\* issues the spawn, kill or try_wait syscall
SectionWork ==
    {"check", "resolve", "appdata", "create", "appdata2", "create2", "take",
     "signal", "wait"}

\* C16: a status() or kill() that waits for the mutex waits behind a holder
\* that is resolving a path or issuing its spawn, kill or try_wait syscall,
\* never behind one that runs the interpreter probe and waits for it to end.
C16_FastSection ==
    \A a \in Tasks, b \in Callers :
       lock = a /\ pc[b] = "lock" /\ op[b] \in {"status", "kill"}
          => pc[a] \in SectionWork

\* ----------------------------------------------------------------- C17
\* C17: every process the host launched, from the startup task or a spawn()
\* command, in either build, got YA_API_LOG_DIR set to the app data
\* directory; a task about to spawn holds that directory; and an operation
\* whose app_data_dir() failed issued no spawn after it: a spawn() created
\* nothing, the startup task stored nothing.
C17_LogDirSet ==
    /\ \A p \in LaunchedPids : launch[p].logdir = "appdata"
    /\ \A t \in Tasks :
          /\ pc[t] \in {"create", "create2"} => frame[t].logdir = "appdata"
          /\ Started(t) /\ frame[t].res = ErrAppData
                => /\ frame[t].post = 0
                   /\ t \in Callers => frame[t].made = {}
                   /\ Cardinality(frame[t].made) <= 1

C17_Witness ==
    /\ ~debug
    /\ Over("auto", "auto") /\ Cardinality(frame["auto"].made) = 2
    /\ Over("c1", "spawn") /\ frame["c1"].made # {}
    /\ \A p \in frame["auto"].made \cup frame["c1"].made :
          launch[p].logdir = "appdata"

\* ----------------------------------------------------------------- C18
\* C18: a process that a successful start left in the handle was launched
\* with its stdout and stderr piped to the host and has two drains, one on
\* each stream, that append its output to the log file line by line.
C18_TwoDrains ==
    \A t \in Tasks :
       Started(t) /\ frame[t].res = SpawnedOk
          => /\ launch[frame[t].post].stdio = "piped"
             /\ launch[frame[t].post].drains = {"stdout", "stderr"}

\* ----------------------------------------------------------------- C19
\* C19: the mutex is held only by a task inside its handle section, so every
\* return, early error returns included, has released it; and no operation
\* ended in a panic with the guard held, so the mutex is not poisoned and the
\* lock() of every later operation gets the guard and the operation returns.
C19_SectionReleased ==
    /\ \A t \in Tasks : lock = t => InSection(t)
    /\ ~poisoned
    /\ \A t \in Tasks : frame[t].res # Panicked

====
